---- MODULE Spec2Model ----
(***************************************************************************)
(* Model of calculate_optimal_hedge_ratio                                  *)
(* (Optimal_Currency_Hedge_Ratio.py).                                      *)
(*                                                                         *)
(* Numbers are exact extended rationals: a record [k, n, d] where          *)
(*   k = "num"  is the rational n/d in lowest terms, d > 0;                *)
(*   k = "nan"  is numpy's nan (0/0, inf-inf, 0*inf, mean of nothing);     *)
(*   k = "inf"  is +inf (n = 1) or -inf (n = -1);                          *)
(*   k = "sqrt" is the real sgn(n) * sqrt(|n|/d) (a signed square root,    *)
(*              kept symbolic so that np.std and np.sqrt stay exact);      *)
(*   k = "one_minus_sqrt" is the real 1 - sqrt(n/d);                       *)
(*   k = "unset" is a local that has not been assigned yet.                *)
(* numpy reports a division by zero or an invalid operation as a           *)
(* RuntimeWarning and carries on with inf / nan; it raises nothing.        *)
(* The sign of a floating-point zero is not modelled.                      *)
(***************************************************************************)
EXTENDS Integers, Sequences, FiniteSets, TLC

\* Bounds of the model.
MaxLen == 3
MaxVal == 2

Values == 0..MaxVal

RECURSIVE SeqsOfLen(_)
SeqsOfLen(len) ==
    IF len = 0 THEN {<<>>}
    ELSE {Append(s, v) : s \in SeqsOfLen(len - 1), v \in Values}

Series == UNION {SeqsOfLen(len) : len \in 0..MaxLen}

----------------------------------------------------------------------------
\* Extended rational arithmetic (IEEE-754 rules for nan and inf).

Abs(x) == IF x < 0 THEN -x ELSE x

Sign(x) == IF x < 0 THEN -1 ELSE IF x > 0 THEN 1 ELSE 0

RECURSIVE GCD(_, _)
GCD(a, b) == IF b = 0 THEN a ELSE GCD(b, a % b)

NaN == [k |-> "nan", n |-> 0, d |-> 0]

Inf(s) == [k |-> "inf", n |-> s, d |-> 0]

Unset == [k |-> "unset", n |-> 0, d |-> 0]

Rat(n, d) ==
    LET g == GCD(Abs(n), Abs(d))
        s == IF d < 0 THEN -1 ELSE 1
    IN  [k |-> "num", n |-> (s * n) \div g, d |-> (s * d) \div g]

Int2Rat(i) == Rat(i, 1)

IsZero(a) == a.k = "num" /\ a.n = 0

Neg(a) == IF a.k = "nan" THEN NaN ELSE [a EXCEPT !.n = -a.n]

Add(a, b) ==
    IF a.k = "nan" \/ b.k = "nan" THEN NaN
    ELSE IF a.k = "inf" /\ b.k = "inf" THEN (IF a.n = b.n THEN a ELSE NaN)
    ELSE IF a.k = "inf" THEN a
    ELSE IF b.k = "inf" THEN b
    ELSE Rat(a.n * b.d + b.n * a.d, a.d * b.d)

Sub(a, b) == Add(a, Neg(b))

Mul(a, b) ==
    IF a.k = "nan" \/ b.k = "nan" THEN NaN
    ELSE IF a.k = "inf" \/ b.k = "inf"
         THEN (IF a.n = 0 \/ b.n = 0 THEN NaN ELSE Inf(Sign(a.n) * Sign(b.n)))
    ELSE Rat(a.n * b.n, a.d * b.d)

Div(a, b) ==
    IF a.k = "nan" \/ b.k = "nan" THEN NaN
    ELSE IF b.k = "inf" THEN (IF a.k = "inf" THEN NaN ELSE Int2Rat(0))
    ELSE IF b.n = 0 THEN (IF a.n = 0 THEN NaN ELSE Inf(Sign(a.n)))
    ELSE IF a.k = "inf" THEN Inf(a.n * Sign(b.n))
    ELSE Rat(a.n * b.d, a.d * b.n)

\* a <= b; every comparison with nan is false.
Leq(a, b) ==
    /\ a.k # "nan"
    /\ b.k # "nan"
    /\ IF a.k = "inf" THEN (a.n = -1 \/ (b.k = "inf" /\ b.n = 1))
       ELSE IF b.k = "inf" THEN b.n = 1
       ELSE a.n * b.d <= b.n * a.d

\* x ** 2 on a rational.
Square(a) == Mul(a, a)

\* np.sqrt: nan (with a RuntimeWarning) on a negative argument.
Sqrt(a) ==
    IF a.k = "nan" THEN NaN
    ELSE IF a.k = "inf" THEN (IF a.n = 1 THEN a ELSE NaN)
    ELSE IF a.n < 0 THEN NaN
    ELSE [k |-> "sqrt", n |-> a.n, d |-> a.d]

\* A rational r seen as the signed root sgn(r) * sqrt(r^2).
AsSurd(a) ==
    IF a.k = "num" THEN [k |-> "sqrt", n |-> Sign(a.n) * a.n * a.n, d |-> a.d * a.d]
    ELSE a

\* The signed square of a signed root: sgn(x) * x^2, a rational.
SignedSquare(a) == IF a.k = "sqrt" THEN [a EXCEPT !.k = "num"] ELSE a

Retag(a) == IF a.k = "num" THEN [a EXCEPT !.k = "sqrt"] ELSE a

\* sgn(x)x^2 * sgn(y)y^2 = sgn(xy)(xy)^2, so products and quotients of signed
\* roots are products and quotients of their signed squares.
SurdMul(a, b) == Retag(Mul(SignedSquare(a), SignedSquare(b)))

SurdDiv(a, b) == Retag(Div(SignedSquare(a), SignedSquare(b)))

SurdNeg(a) == Retag(Neg(SignedSquare(a)))

\* x ** 2 on a signed root: the absolute value of its signed square.
SurdSquare(a) ==
    IF a.k = "nan" THEN NaN
    ELSE IF a.k = "inf" THEN Inf(1)
    ELSE Rat(Abs(a.n), a.d)

----------------------------------------------------------------------------
\* numpy reductions.

RECURSIVE SumSeq(_)
SumSeq(a) == IF a = <<>> THEN 0 ELSE Head(a) + SumSeq(Tail(a))

\* np.mean: nan for an empty array.
Mean(a) == IF Len(a) = 0 THEN NaN ELSE Rat(SumSeq(a), Len(a))

RECURSIVE SumDevProd(_, _, _, _)
SumDevProd(a, b, ma, mb) ==
    IF a = <<>> THEN Int2Rat(0)
    ELSE Add(Mul(Sub(Int2Rat(Head(a)), ma), Sub(Int2Rat(Head(b)), mb)),
             SumDevProd(Tail(a), Tail(b), ma, mb))

\* np.var(a): ddof = 0, the mean of the squared deviations from the mean.
NpVar(a) ==
    IF Len(a) = 0 THEN NaN
    ELSE Div(SumDevProd(a, a, Mean(a), Mean(a)), Int2Rat(Len(a)))

\* np.std(a): sqrt of np.var(a).
NpStd(a) == Sqrt(NpVar(a))

\* np.cov(a, b)[0, 1] for two arrays of one length: ddof = 1, so the sum of
\* the products of deviations is scaled by 1 / fact with fact = N - 1, and
\* fact <= 0 is replaced by 0.0 (scale inf, and 0 * inf = nan).
NpCovDdof(a, b, fact) ==
    Mul(SumDevProd(a, b, Mean(a), Mean(b)),
        Div(Int2Rat(1), Int2Rat(IF fact <= 0 THEN 0 ELSE fact)))

NpCov(a, b) == NpCovDdof(a, b, Len(a) - 1)

----------------------------------------------------------------------------
\* The formulas of calculate_optimal_hedge_ratio, one operator per statement.

\* optimal_hedge_ratio = covariance / var_hedged
OptimalHedgeRatio(cov, var_h) == Div(cov, var_h)

\* Mutant: the cross term added instead of subtracted.
PortfolioVariance_SignSlip(var_u, ratio, var_h, cov) ==
    Add(Add(var_u, Mul(Square(ratio), var_h)),
        Mul(Mul(Int2Rat(2), ratio), cov))

\* portfolio_variance = var_unhedged + ratio**2 * var_hedged - 2 * ratio * covariance
PortfolioVariance(var_u, ratio, var_h, cov) ==
    Sub(Add(var_u, Mul(Square(ratio), var_h)),
        Mul(Mul(Int2Rat(2), ratio), cov))

\* correlation = covariance / (np.std(hedged) * np.std(unhedged))
Correlation(cov, std_h, std_u) == SurdDiv(AsSurd(cov), SurdMul(std_h, std_u))

\* Mutant: the absolute correlation instead of its square.
RSquared_NotSquared(corr) ==
    IF corr.k = "nan" THEN NaN
    ELSE IF corr.k = "inf" THEN Inf(1)
    ELSE IF corr.n = 0 THEN Int2Rat(0)
    ELSE IF Abs(corr.n) = corr.d THEN Int2Rat(1)
    ELSE [k |-> "sqrt", n |-> Abs(corr.n), d |-> corr.d]

\* hedge_effectiveness_rsquared = correlation ** 2
RSquared(corr) == SurdSquare(corr)

\* Mutant: the remaining share of variance instead of the removed share.
VarianceReduction_Remaining(var_u, pv) == Div(pv, var_u)

\* variance_reduction = (var_unhedged - portfolio_variance) / var_unhedged
VarianceReduction(var_u, pv) == Div(Sub(var_u, pv), var_u)

\* -z_score * np.sqrt(v), in units of z_score (a positive constant).
VaRPosition(v) == SurdNeg(Sqrt(v))

\* var_reduction = (a - b) / a for a = -z*sqrt(var_unhedged) and
\* b = -z*sqrt(portfolio_variance); for a # 0 this is 1 - b/a, and z cancels.
\* a is the negative zero -z * 0.0 when var_unhedged is 0.
VaRReduction(a, b) ==
    IF a.k = "nan" \/ b.k = "nan" \/ a.k = "inf" THEN NaN
    ELSE IF b.k = "inf" THEN Inf(-1)
    ELSE IF a.n = 0 THEN (IF b.n = 0 THEN NaN ELSE Inf(-1))
    ELSE [SurdDiv(b, a) EXCEPT !.k = "one_minus_sqrt"]

----------------------------------------------------------------------------
\* One call of calculate_optimal_hedge_ratio, statement by statement.

VARIABLES pc, hedged_returns, unhedged_returns, hedged, unhedged,
          var_hedged, var_unhedged, covariance, optimal_hedge_ratio,
          portfolio_variance, correlation, hedge_effectiveness_rsquared,
          variance_reduction, var_unhedged_position, var_hedged_portfolio,
          var_reduction, result, raised, raised_at

vars == <<pc, hedged_returns, unhedged_returns, hedged, unhedged,
          var_hedged, var_unhedged, covariance, optimal_hedge_ratio,
          portfolio_variance, correlation, hedge_effectiveness_rsquared,
          variance_reduction, var_unhedged_position, var_hedged_portfolio,
          var_reduction, result, raised, raised_at>>

NoResult ==
    [optimal_hedge_ratio |-> Unset, portfolio_variance |-> Unset,
     correlation |-> Unset, rsquared |-> Unset, variance_reduction |-> Unset,
     var_reduction |-> Unset, hedged_variance |-> Unset,
     unhedged_variance |-> Unset]

Init ==
    /\ pc = "convert"
    /\ hedged_returns \in Series
    /\ unhedged_returns \in Series
    /\ hedged = <<>>
    /\ unhedged = <<>>
    /\ var_hedged = Unset
    /\ var_unhedged = Unset
    /\ covariance = Unset
    /\ optimal_hedge_ratio = Unset
    /\ portfolio_variance = Unset
    /\ correlation = Unset
    /\ hedge_effectiveness_rsquared = Unset
    /\ variance_reduction = Unset
    /\ var_unhedged_position = Unset
    /\ var_hedged_portfolio = Unset
    /\ var_reduction = Unset
    /\ result = NoResult
    /\ raised = "none"
    /\ raised_at = "none"

\* hedged = np.array(hedged_returns); unhedged = np.array(unhedged_returns)
Convert ==
    /\ pc = "convert"
    /\ hedged' = hedged_returns
    /\ unhedged' = unhedged_returns
    /\ pc' = "var"
    /\ UNCHANGED <<hedged_returns, unhedged_returns, var_hedged, var_unhedged,
                   covariance, optimal_hedge_ratio, portfolio_variance,
                   correlation, hedge_effectiveness_rsquared,
                   variance_reduction, var_unhedged_position,
                   var_hedged_portfolio, var_reduction, result, raised,
                   raised_at>>

\* var_hedged = np.var(hedged); var_unhedged = np.var(unhedged)
ComputeVariances ==
    /\ pc = "var"
    /\ var_hedged' = NpVar(hedged)
    /\ var_unhedged' = NpVar(unhedged)
    /\ pc' = "cov"
    /\ UNCHANGED <<hedged_returns, unhedged_returns, hedged, unhedged,
                   covariance, optimal_hedge_ratio, portfolio_variance,
                   correlation, hedge_effectiveness_rsquared,
                   variance_reduction, var_unhedged_position,
                   var_hedged_portfolio, var_reduction, result, raised,
                   raised_at>>

\* cov_matrix = np.cov(hedged, unhedged); covariance = cov_matrix[0, 1]
\* np.cov stacks the two arrays and raises ValueError when their lengths
\* differ; the exception leaves the function, which has no handler.
ComputeCovariance ==
    /\ pc = "cov"
    /\ IF Len(hedged) # Len(unhedged)
       THEN /\ raised' = "ValueError"
            /\ raised_at' = "cov"
            /\ pc' = "raised"
            /\ UNCHANGED covariance
       ELSE /\ covariance' = NpCov(hedged, unhedged)
            /\ pc' = "ratio"
            /\ UNCHANGED <<raised, raised_at>>
    /\ UNCHANGED <<hedged_returns, unhedged_returns, hedged, unhedged,
                   var_hedged, var_unhedged, optimal_hedge_ratio,
                   portfolio_variance, correlation,
                   hedge_effectiveness_rsquared, variance_reduction,
                   var_unhedged_position, var_hedged_portfolio,
                   var_reduction, result>>

ComputeHedgeRatio ==
    /\ pc = "ratio"
    /\ optimal_hedge_ratio' = OptimalHedgeRatio(covariance, var_hedged)
    /\ pc' = "portfolio_variance"
    /\ UNCHANGED <<hedged_returns, unhedged_returns, hedged, unhedged,
                   var_hedged, var_unhedged, covariance, portfolio_variance,
                   correlation, hedge_effectiveness_rsquared,
                   variance_reduction, var_unhedged_position,
                   var_hedged_portfolio, var_reduction, result, raised,
                   raised_at>>

ComputePortfolioVariance ==
    /\ pc = "portfolio_variance"
    /\ portfolio_variance' =
           PortfolioVariance(var_unhedged, optimal_hedge_ratio, var_hedged,
                             covariance)
    /\ pc' = "correlation"
    /\ UNCHANGED <<hedged_returns, unhedged_returns, hedged, unhedged,
                   var_hedged, var_unhedged, covariance, optimal_hedge_ratio,
                   correlation, hedge_effectiveness_rsquared,
                   variance_reduction, var_unhedged_position,
                   var_hedged_portfolio, var_reduction, result, raised,
                   raised_at>>

ComputeCorrelation ==
    /\ pc = "correlation"
    /\ correlation' = Correlation(covariance, NpStd(hedged), NpStd(unhedged))
    /\ pc' = "rsquared"
    /\ UNCHANGED <<hedged_returns, unhedged_returns, hedged, unhedged,
                   var_hedged, var_unhedged, covariance, optimal_hedge_ratio,
                   portfolio_variance, hedge_effectiveness_rsquared,
                   variance_reduction, var_unhedged_position,
                   var_hedged_portfolio, var_reduction, result, raised,
                   raised_at>>

ComputeRSquared ==
    /\ pc = "rsquared"
    /\ hedge_effectiveness_rsquared' = RSquared(correlation)
    /\ pc' = "variance_reduction"
    /\ UNCHANGED <<hedged_returns, unhedged_returns, hedged, unhedged,
                   var_hedged, var_unhedged, covariance, optimal_hedge_ratio,
                   portfolio_variance, correlation, variance_reduction,
                   var_unhedged_position, var_hedged_portfolio,
                   var_reduction, result, raised, raised_at>>

ComputeVarianceReduction ==
    /\ pc = "variance_reduction"
    /\ variance_reduction' = VarianceReduction(var_unhedged, portfolio_variance)
    /\ pc' = "var_reduction"
    /\ UNCHANGED <<hedged_returns, unhedged_returns, hedged, unhedged,
                   var_hedged, var_unhedged, covariance, optimal_hedge_ratio,
                   portfolio_variance, correlation,
                   hedge_effectiveness_rsquared, var_unhedged_position,
                   var_hedged_portfolio, var_reduction, result, raised,
                   raised_at>>

\* confidence_level = 0.95; z_score = stats.norm.ppf(confidence_level)
\* var_unhedged_position, var_hedged_portfolio, var_reduction
ComputeVaRReduction ==
    /\ pc = "var_reduction"
    /\ var_unhedged_position' = VaRPosition(var_unhedged)
    /\ var_hedged_portfolio' = VaRPosition(portfolio_variance)
    /\ var_reduction' =
           VaRReduction(VaRPosition(var_unhedged),
                        VaRPosition(portfolio_variance))
    /\ pc' = "return"
    /\ UNCHANGED <<hedged_returns, unhedged_returns, hedged, unhedged,
                   var_hedged, var_unhedged, covariance, optimal_hedge_ratio,
                   portfolio_variance, correlation,
                   hedge_effectiveness_rsquared, variance_reduction, result,
                   raised, raised_at>>

\* return {...}
Return ==
    /\ pc = "return"
    /\ result' =
           [optimal_hedge_ratio |-> optimal_hedge_ratio,
            portfolio_variance |-> portfolio_variance,
            correlation |-> correlation,
            rsquared |-> hedge_effectiveness_rsquared,
            variance_reduction |-> variance_reduction,
            var_reduction |-> var_reduction,
            hedged_variance |-> var_hedged,
            unhedged_variance |-> var_unhedged]
    /\ pc' = "done"
    /\ UNCHANGED <<hedged_returns, unhedged_returns, hedged, unhedged,
                   var_hedged, var_unhedged, covariance, optimal_hedge_ratio,
                   portfolio_variance, correlation,
                   hedge_effectiveness_rsquared, variance_reduction,
                   var_unhedged_position, var_hedged_portfolio,
                   var_reduction, raised, raised_at>>

Next ==
    \/ Convert
    \/ ComputeVariances
    \/ ComputeCovariance
    \/ ComputeHedgeRatio
    \/ ComputePortfolioVariance
    \/ ComputeCorrelation
    \/ ComputeRSquared
    \/ ComputeVarianceReduction
    \/ ComputeVaRReduction
    \/ Return

Spec == Init /\ [][Next]_vars

TypeOK ==
    /\ pc \in {"convert", "var", "cov", "ratio", "portfolio_variance",
               "correlation", "rsquared", "variance_reduction",
               "var_reduction", "return", "done", "raised"}
    /\ raised \in {"none", "ValueError"}

----------------------------------------------------------------------------
\* Properties of the call.

Zero == Int2Rat(0)

One == Int2Rat(1)

IsConstant(a) == \A i, j \in 1..Len(a) : a[i] = a[j]

\* Two series of one length, at least 2.
ValidPair ==
    /\ Len(hedged_returns) = Len(unhedged_returns)
    /\ Len(hedged_returns) >= 2

Finished == pc \in {"done", "raised"}

\* Sum of products of deviations from the means, divided by N.
PopulationCovariance(a, b) ==
    Div(SumDevProd(a, b, Mean(a), Mean(b)), Int2Rat(Len(a)))

\* C1: for equal-length series of length >= 2 with a non-constant hedged
\* series, the covariance is the population covariance (divisor N) and the
\* returned optimal_hedge_ratio is population covariance / population
\* variance of hedged.
C1_PopulationCovariance ==
    (pc = "done" /\ ValidPair /\ ~IsConstant(hedged_returns)) =>
        /\ covariance = PopulationCovariance(hedged_returns, unhedged_returns)
        /\ result.optimal_hedge_ratio =
               Div(PopulationCovariance(hedged_returns, unhedged_returns),
                   NpVar(hedged_returns))

\* C2: for element-wise identical, non-constant series the call returns
\* optimal_hedge_ratio 1, correlation 1, rsquared 1, portfolio_variance 0
\* and variance_reduction 1.
C2_IdenticalSeries ==
    (Finished /\ ValidPair /\ hedged_returns = unhedged_returns
              /\ ~IsConstant(hedged_returns)) =>
        /\ pc = "done"
        /\ result.optimal_hedge_ratio = One
        /\ result.correlation = AsSurd(One)
        /\ result.rsquared = One
        /\ result.portfolio_variance = Zero
        /\ result.variance_reduction = One

\* C3: for equal-length series of length >= 2, neither constant, the
\* returned correlation lies in [-1, 1].
C3_CorrelationBounded ==
    (pc = "done" /\ ValidPair /\ ~IsConstant(hedged_returns)
                 /\ ~IsConstant(unhedged_returns)) =>
        /\ Leq(Neg(One), SignedSquare(result.correlation))
        /\ Leq(SignedSquare(result.correlation), One)

\* C4: for equal-length series of length >= 2 with a non-constant hedged
\* series, portfolio_variance is never negative, so the VaR step takes the
\* square root of a non-negative number.
C4_PortfolioVarianceNonNegative ==
    (pc = "done" /\ ValidPair /\ ~IsConstant(hedged_returns)) =>
        /\ Leq(Zero, result.portfolio_variance)
        /\ var_hedged_portfolio.k # "nan"

\* C5: for equal-length series of length >= 2 with a non-constant hedged
\* series, the returned portfolio_variance is at most the returned
\* unhedged_variance.
C5_HedgeNeverIncreasesVariance ==
    (pc = "done" /\ ValidPair /\ ~IsConstant(hedged_returns)) =>
        Leq(result.portfolio_variance, result.unhedged_variance)

C5_Witness ==
    /\ pc = "done"
    /\ ValidPair
    /\ ~IsConstant(hedged_returns)
    /\ ~IsZero(covariance)
    /\ result.portfolio_variance # result.unhedged_variance
    /\ Leq(result.portfolio_variance, result.unhedged_variance)

\* C6: when the hedged series is constant the call fails with an error
\* raised at the hedge-ratio division and returns no statistics record.
\* (Any exception counts as the DegenerateInputError.)
C6_ConstantHedgedRaises ==
    (Finished /\ ValidPair /\ IsConstant(hedged_returns)) =>
        /\ pc = "raised"
        /\ raised # "none"
        /\ raised_at = "ratio"
        /\ result = NoResult

\* C7: when the unhedged series is constant and the hedged series is not,
\* the call fails with an error raised by the variance_reduction division,
\* no earlier step having failed and no result being returned.
\* (Any exception counts as the DegenerateInputError.)
C7_ConstantUnhedgedRaises ==
    (Finished /\ ValidPair /\ IsConstant(unhedged_returns)
              /\ ~IsConstant(hedged_returns)) =>
        /\ pc = "raised"
        /\ raised # "none"
        /\ raised_at = "variance_reduction"
        /\ result = NoResult

\* C8: a call whose series have different lengths, or in which either
\* series is empty, is rejected with an error before any variance,
\* covariance or ratio is computed, and no statistics record is returned.
\* (Any exception counts as the InvalidInputError.)
C8_InvalidInputRejected ==
    (Finished /\ (\/ Len(hedged_returns) # Len(unhedged_returns)
                  \/ Len(hedged_returns) = 0
                  \/ Len(unhedged_returns) = 0)) =>
        /\ pc = "raised"
        /\ raised # "none"
        /\ var_hedged = Unset
        /\ var_unhedged = Unset
        /\ covariance = Unset
        /\ optimal_hedge_ratio = Unset
        /\ result = NoResult

\* C9: if the covariance is exactly zero and neither series is constant, the
\* call returns optimal_hedge_ratio 0, portfolio_variance equal to
\* unhedged_variance and variance_reduction 0.
C9_ZeroCovariance ==
    (pc = "done" /\ ValidPair /\ ~IsConstant(hedged_returns)
                 /\ ~IsConstant(unhedged_returns) /\ IsZero(covariance)) =>
        /\ result.optimal_hedge_ratio = Zero
        /\ result.portfolio_variance = result.unhedged_variance
        /\ result.variance_reduction = Zero

C9_Witness ==
    /\ pc = "done"
    /\ ValidPair
    /\ ~IsConstant(hedged_returns)
    /\ ~IsConstant(unhedged_returns)
    /\ IsZero(covariance)
    /\ result.variance_reduction = Zero

\* C10: for equal-length series of length >= 2, neither constant, the
\* returned variance_reduction and rsquared are equal.
C10_VarianceReductionIsRSquared ==
    (pc = "done" /\ ValidPair /\ ~IsConstant(hedged_returns)
                 /\ ~IsConstant(unhedged_returns)) =>
        result.variance_reduction = result.rsquared

C10_Witness ==
    /\ pc = "done"
    /\ ValidPair
    /\ ~IsConstant(hedged_returns)
    /\ ~IsConstant(unhedged_returns)
    /\ ~IsZero(covariance)
    /\ result.rsquared # One
    /\ result.variance_reduction = result.rsquared

====
